---- MODULE Spec2Model ----
(***************************************************************************)
(* A model of src/App.js (WeatherApp): the React state of the screen, the  *)
(* fetchWeather handler with its two awaited gateway requests, and the     *)
(* values derived at every render (weatherData, getRainTimes,              *)
(* getLocalTime, the description text).                                    *)
(*                                                                         *)
(* Strings are sequences of characters (one-character strings, or a code   *)
(* point written "U+00A0"), so that trim,                                  *)
(* toLowerCase, includes, charAt and slice are computed and not assumed.   *)
(* An optional value (null in the source) is a sequence of length 0 or 1.  *)
(***************************************************************************)
EXTENDS Integers, Sequences, FiniteSets, TLC

VARIABLES city, weather, loading, error, searches, started, gets, arrivals,
          weatherBy, host, summary, view

vars == <<city, weather, loading, error, searches, started, gets, arrivals,
          weatherBy, host, summary, view>>

(***************************************************************************)
(* Bounds of the model.                                                    *)
(***************************************************************************)
\* number of searches (fetchWeather calls that pass the empty-input guard)
MaxSearches == 2
\* longest forecast list enumerated exhaustively
MaxLen == 3

(***************************************************************************)
(* Strings.                                                                *)
(***************************************************************************)
UpperAlpha == <<"A","B","C","D","E","F","G","H","I","J","K","L","M",
                "N","O","P","Q","R","S","T","U","V","W","X","Y","Z">>
LowerAlpha == <<"a","b","c","d","e","f","g","h","i","j","k","l","m",
                "n","o","p","q","r","s","t","u","v","w","x","y","z">>

\* the characters String.prototype.trim removes: the ECMAScript WhiteSpace
\* and LineTerminator code points.  A character with no escape in a string
\* of this module is written as its code point, "U+00A0".
WhiteSpace ==
    {"\t", "\n", "U+000B", "\f", "\r", " ", "U+00A0", "U+1680",
     "U+2000", "U+2001", "U+2002", "U+2003", "U+2004", "U+2005", "U+2006",
     "U+2007", "U+2008", "U+2009", "U+200A", "U+2028", "U+2029", "U+202F",
     "U+205F", "U+3000", "U+FEFF"}

IndexIn(c, alpha) == CHOOSE k \in 1..Len(alpha) : alpha[k] = c

LowerChar(c) ==
    IF \E k \in 1..Len(UpperAlpha) : UpperAlpha[k] = c
    THEN LowerAlpha[IndexIn(c, UpperAlpha)] ELSE c

UpperChar(c) ==
    IF \E k \in 1..Len(LowerAlpha) : LowerAlpha[k] = c
    THEN UpperAlpha[IndexIn(c, LowerAlpha)] ELSE c

\* String.prototype.toLowerCase / toUpperCase
toLowerCase(s) == [k \in 1..Len(s) |-> LowerChar(s[k])]
toUpperCase(s) == [k \in 1..Len(s) |-> UpperChar(s[k])]

\* String.prototype.includes
includes(s, sub) ==
    \E k \in 0..(Len(s) - Len(sub)) : SubSeq(s, k + 1, k + Len(sub)) = sub

\* String.prototype.charAt (the empty string when out of range) and slice(n)
charAt(s, n) == IF n < Len(s) THEN <<s[n + 1]>> ELSE <<>>
slice(s, n) == SubSeq(s, n + 1, Len(s))

RECURSIVE TrimStart(_)
TrimStart(s) ==
    IF s # <<>> /\ Head(s) \in WhiteSpace THEN TrimStart(Tail(s)) ELSE s

RECURSIVE TrimEnd(_)
TrimEnd(s) ==
    IF s # <<>> /\ s[Len(s)] \in WhiteSpace
    THEN TrimEnd(SubSeq(s, 1, Len(s) - 1)) ELSE s

\* String.prototype.trim
trim(s) == TrimEnd(TrimStart(s))

RainWord == <<"r","a","i","n">>

(***************************************************************************)
(* Messages of fetchWeather (the text before the emoji).                   *)
(***************************************************************************)
NoError == ""
PleaseEnterCity == "Please enter a city"
CityNotFound == "City not found! Try again"

(***************************************************************************)
(* JavaScript numbers: sums and quotients of integer temperatures are      *)
(* exact rationals num/den (den > 0, lowest terms); 0/0 is NaN and the     *)
(* minimum/maximum of no arguments is +Infinity/-Infinity.                 *)
(***************************************************************************)
Abs(n) == IF n < 0 THEN -n ELSE n

RECURSIVE GCD(_, _)
GCD(a, b) == IF b = 0 THEN a ELSE GCD(b, a % b)

Num(n) == [kind |-> "num", num |-> n, den |-> 1]
NaN == [kind |-> "NaN", num |-> 0, den |-> 0]
PosInfinity == [kind |-> "+Infinity", num |-> 0, den |-> 0]
NegInfinity == [kind |-> "-Infinity", num |-> 0, den |-> 0]

\* the JavaScript quotient a / b of two integers (b >= 0: a list length)
Divide(a, b) ==
    IF b = 0
    THEN IF a = 0 THEN NaN ELSE IF a > 0 THEN PosInfinity ELSE NegInfinity
    ELSE LET g == GCD(Abs(a), b)
         IN  [kind |-> "num", num |-> a \div g, den |-> b \div g]

\* Array.prototype.reduce((sum, item) => sum + item.main.temp, 0)
RECURSIVE SumTemps(_, _, _)
SumTemps(list, k, sum) ==
    IF k > Len(list) THEN sum
    ELSE SumTemps(list, k + 1, sum + list[k].main.temp)

\* Math.min(...temps): starts from +Infinity, keeps the smaller argument
RECURSIVE MathMin(_, _, _)
MathMin(temps, k, best) ==
    IF k > Len(temps) THEN best
    ELSE MathMin(temps, k + 1,
                 IF best.kind = "+Infinity" \/ temps[k] < best.num
                 THEN Num(temps[k]) ELSE best)

\* Math.max(...temps): starts from -Infinity, keeps the larger argument
RECURSIVE MathMax(_, _, _)
MathMax(temps, k, best) ==
    IF k > Len(temps) THEN best
    ELSE MathMax(temps, k + 1,
                 IF best.kind = "-Infinity" \/ temps[k] > best.num
                 THEN Num(temps[k]) ELSE best)

\* weather.forecast.list.map(item => item.main.temp)
Temps(list) == [k \in 1..Len(list) |-> list[k].main.temp]

\* mutant: the mean taken over one point too many
avgTempOffByOne(list) == Divide(SumTemps(list, 1, 0), Len(list) + 1)

avgTemp(list) == Divide(SumTemps(list, 1, 0), Len(list))
minTemp(list) == MathMin(Temps(list), 1, PosInfinity)
maxTemp(list) == MathMax(Temps(list), 1, NegInfinity)

(***************************************************************************)
(* getLocalTime: new Date((timestamp + timezoneOffset) * 1000) formatted   *)
(* by toLocaleTimeString([], {hour: '2-digit', minute: '2-digit'}).  No    *)
(* timeZone option is passed, so the Date is read in the host's own time   *)
(* zone (host.utcOffset), and the locale list is empty, so the text is     *)
(* that of the host's default locale (host.locale).  The locales modelled  *)
(* are en-GB, en-US, en-AU and fr-CA.                                      *)
(***************************************************************************)
MsPerSecond == 1000

Digits == <<"0","1","2","3","4","5","6","7","8","9">>
TwoDigit(n) == <<Digits[(n \div 10) + 1], Digits[(n % 10) + 1]>>

\* hour and minute of the day of an instant given in ms since the epoch,
\* read in a zone utcOffset seconds east of UTC
HourOf(ms, utcOffset) ==
    (((ms \div MsPerSecond) + utcOffset) % 86400) \div 3600
MinuteOf(ms, utcOffset) ==
    ((((ms \div MsPerSecond) + utcOffset) % 86400) % 3600) \div 60

\* the hour of a 12-hour clock
Hour12(hour) == IF hour % 12 = 0 THEN 12 ELSE hour % 12

\* Date.prototype.toLocaleTimeString([], {hour: '2-digit', minute: '2-digit'})
\* in the host's default locale
FormatTime(hour, minute, locale) ==
    CASE locale = "en-GB" ->
            TwoDigit(hour) \o <<":">> \o TwoDigit(minute)
      [] locale = "fr-CA" ->
            TwoDigit(hour) \o <<" ", "h", " ">> \o TwoDigit(minute)
      [] locale = "en-US" ->
            TwoDigit(Hour12(hour)) \o <<":">> \o TwoDigit(minute) \o <<" ">>
                \o (IF hour < 12 THEN <<"A","M">> ELSE <<"P","M">>)
      [] locale = "en-AU" ->
            TwoDigit(Hour12(hour)) \o <<":">> \o TwoDigit(minute) \o <<" ">>
                \o (IF hour < 12 THEN <<"a","m">> ELSE <<"p","m">>)

toLocaleTimeString(ms, h) ==
    FormatTime(HourOf(ms, h.utcOffset), MinuteOf(ms, h.utcOffset), h.locale)

getLocalTime(timestamp, timezoneOffset, h) ==
    toLocaleTimeString((timestamp + timezoneOffset) * MsPerSecond, h)

(***************************************************************************)
(* Rain: the predicate of the filter in getRainTimes and of the some() in  *)
(* weatherData.willRain, and the two traversals.                           *)
(***************************************************************************)
\* mutant: only the main field is tested
IsRainItemMainOnly(item) ==
    includes(toLowerCase(item.weather[1].main), RainWord)

IsRainItem(item) ==
    \/ includes(toLowerCase(item.weather[1].main), RainWord)
    \/ includes(toLowerCase(item.weather[1].description), RainWord)

\* Array.prototype.some: stops at the first item that satisfies the test
RECURSIVE Some(_, _)
Some(list, k) ==
    IF k > Len(list) THEN FALSE
    ELSE IF IsRainItem(list[k]) THEN TRUE ELSE Some(list, k + 1)

willRain(list) == Some(list, 1)

\* item.rain ? item.rain['3h'] || 0 : 0
Intensity(item) ==
    IF item.rain.present
    THEN IF item.rain.has3h /\ item.rain.mm # 0 THEN item.rain.mm ELSE 0
    ELSE 0

\* mutant: the matches are collected in reverse
RECURSIVE FilterReversed(_, _)
FilterReversed(list, k) ==
    IF k > Len(list) THEN <<>>
    ELSE IF IsRainItem(list[k])
         THEN FilterReversed(list, k + 1) \o <<list[k]>>
         ELSE FilterReversed(list, k + 1)

\* Array.prototype.filter: one pass, left to right, keeping the matches
RECURSIVE Filter(_, _)
Filter(list, k) ==
    IF k > Len(list) THEN <<>>
    ELSE IF IsRainItem(list[k])
         THEN <<list[k]>> \o Filter(list, k + 1)
         ELSE Filter(list, k + 1)

\* Array.prototype.map(item => ({time, intensity}))
MapRainTime(items, timezoneOffset, h) ==
    [k \in 1..Len(items) |->
        [time      |-> getLocalTime(items[k].dt, timezoneOffset, h),
         intensity |-> Intensity(items[k])]]

\* w is the weather state: <<>> (null) or <<[current, forecast, timezoneOffset]>>
getRainTimes(w, h) ==
    IF w = <<>> THEN <<>>
    ELSE MapRainTime(Filter(w[1].forecast.list, 1), w[1].timezoneOffset, h)

(***************************************************************************)
(* The description text: the expression of the JSX, then the style         *)
(* styles.description (textTransform: 'capitalize'), which upper-cases the *)
(* first letter of every word of the text it is given.                     *)
(***************************************************************************)
CapitalizeFirst(s) == toUpperCase(charAt(s, 0)) \o slice(s, 1)

TextTransformCapitalize(s) ==
    [k \in 1..Len(s) |->
        IF k = 1 \/ s[k - 1] \in WhiteSpace THEN UpperChar(s[k]) ELSE s[k]]

DescriptionText(description) ==
    TextTransformCapitalize(CapitalizeFirst(description))

(***************************************************************************)
(* weatherData = weather && {...} and extremeWeather, computed at every    *)
(* render.                                                                 *)
(***************************************************************************)
weatherData(w, h) ==
    IF w = <<>> THEN <<>>
    ELSE <<[location    |-> w[1].current.name,
            currentTemp |-> w[1].current.main.temp,
            avgTemp     |-> avgTemp(w[1].forecast.list),
            minTemp     |-> minTemp(w[1].forecast.list),
            maxTemp     |-> maxTemp(w[1].forecast.list),
            humidity    |-> w[1].current.main.humidity,
            description |-> w[1].current.weather[1].description,
            icon        |-> w[1].current.weather[1].icon,
            willRain    |-> willRain(w[1].forecast.list),
            rainTimes   |-> getRainTimes(w, h),
            currentTime |-> getLocalTime(w[1].current.dt,
                                         w[1].timezoneOffset, h)]>>

ExtremeWords ==
    {<<"t","y","p","h","o","o","n">>, <<"s","t","o","r","m">>,
     <<"h","u","r","r","i","c","a","n","e">>, <<"t","o","r","n","a","d","o">>,
     <<"s","e","v","e","r","e">>}

\* main === 'Extreme' || /typhoon|storm|hurricane|tornado|severe/i.test(description)
extremeWeather(w) ==
    /\ w # <<>>
    /\ \/ w[1].current.weather[1].main = <<"E","x","t","r","e","m","e">>
       \/ \E word \in ExtremeWords :
            includes(toLowerCase(w[1].current.weather[1].description), word)

(***************************************************************************)
(* What the render puts on screen: the spinner, the error text and the     *)
(* card.  An emoji is written as its name between brackets.                *)
(***************************************************************************)
\* Math.round: the integer nearest to x, a half rounded up
MathRound(x) ==
    IF x.kind # "num" THEN x
    ELSE Num((2 * x.num + x.den) \div (2 * x.den))

\* the decimal digits of a natural number
RECURSIVE DecimalDigits(_)
DecimalDigits(n) ==
    IF n < 10 THEN <<Digits[n + 1]>>
    ELSE DecimalDigits(n \div 10) \o <<Digits[(n % 10) + 1]>>

\* Number.prototype.toFixed(1) of a whole number of millimetres
toFixed1(n) == DecimalDigits(n) \o <<".", "0">>

getWeatherEmoji(weatherMain) ==
    CASE weatherMain = <<"R","a","i","n">> -> "[cloud with rain]"
      [] weatherMain = <<"C","l","o","u","d","s">> -> "[cloud]"
      [] weatherMain = <<"C","l","e","a","r">> -> "[sun]"
      [] weatherMain = <<"S","n","o","w">> -> "[snowflake]"
      [] weatherMain = <<"T","h","u","n","d","e","r","s","t","o","r","m">>
            -> "[high voltage]"
      [] weatherMain = <<"E","x","t","r","e","m","e">> -> "[warning]"
      [] OTHER -> "[rainbow]"

\* one cell of the rain grid
renderRainTime(item) ==
    [time      |-> item.time,
     intensity |-> IF item.intensity > 0
                   THEN <<"[droplet]", " ">> \o toFixed1(item.intensity)
                            \o <<"m", "m">>
                   ELSE <<"[cloud with rain]">>]

Card(w, data) ==
    [city        |-> [location |-> data.location,
                      emoji |-> getWeatherEmoji(w[1].current.weather[1].main)],
     icon        |-> data.icon,
     temp        |-> MathRound(Num(data.currentTemp)),
     high        |-> MathRound(data.maxTemp),
     low         |-> MathRound(data.minTemp),
     description |-> DescriptionText(data.description),
     feelsLike   |-> MathRound(Num(w[1].current.main.feels_like)),
     humidity    |-> data.humidity,
     wind        |-> w[1].current.wind.speed,
     avg         |-> MathRound(data.avgTemp),
     alert       |-> IF extremeWeather(w)
                     THEN <<toUpperCase(w[1].current.weather[1].description)>>
                     ELSE <<>>,
     rain        |-> IF data.willRain
                     THEN [expected |-> TRUE,
                           cells |-> [k \in 1..Len(data.rainTimes) |->
                                        renderRainTime(data.rainTimes[k])]]
                     ELSE [expected |-> FALSE, cells |-> <<>>]]

\* data is the weatherData of this render
Render(w, data, l, e) ==
    [spinner   |-> l,
     errorText |-> e,
     card      |-> IF data = <<>> THEN <<>> ELSE <<Card(w, data[1])>>]

(***************************************************************************)
(* The gateway's answers (the environment).  Cities are what the user can  *)
(* type; a response is what api.openweathermap.org returns for it.         *)
(***************************************************************************)
Paris == <<"P","a","r","i","s">>
Oslo == <<"O","s","l","o">>
Cities == {<<>>, <<" "," "," ">>, <<"\r", "U+00A0", "\f">>, Paris,
           <<"\t">> \o Oslo \o <<"\n">>}

LightRain == <<"l","i","g","h","t"," ","r","a","i","n">>
ClearSky == <<"c","l","e","a","r"," ","s","k","y">>

\* the (main, description, rain) combinations a forecast point is drawn from
PointKinds ==
    << [main |-> <<"R","a","i","n">>,
        description |-> <<"s","h","o","w","e","r","s">>,
        rain |-> [present |-> TRUE, has3h |-> TRUE, mm |-> 23]],
       [main |-> <<"C","l","o","u","d","s">>,
        description |-> LightRain,
        rain |-> [present |-> FALSE, has3h |-> FALSE, mm |-> 0]],
       [main |-> <<"C","l","e","a","r">>,
        description |-> ClearSky,
        rain |-> [present |-> FALSE, has3h |-> FALSE, mm |-> 0]],
       [main |-> <<"S","n","o","w">>,
        description |-> <<"R","a","i","n"," ","a","n","d"," ","s","n","o","w">>,
        rain |-> [present |-> TRUE, has3h |-> FALSE, mm |-> 0]],
       [main |-> <<"M","i","s","t">>,
        description |-> <<"r","a","i"," ","n">>,
        rain |-> [present |-> TRUE, has3h |-> TRUE, mm |-> 0]] >>

TempPool == {-3, 0, 7}
TimezonePool == {19800}
\* the devices the screen runs on; the aggregation is also run on two more
HostPool == {[utcOffset |-> 0, locale |-> "en-GB"],
             [utcOffset |-> -18000, locale |-> "en-US"]}
AggHostPool == HostPool \cup {[utcOffset |-> 36000, locale |-> "en-AU"],
                              [utcOffset |-> -14400, locale |-> "fr-CA"]}

\* forecast points are three hours apart, the first at 09:00 UTC of day 0
Point(k, temp, kind) ==
    [dt      |-> 32400 + (k - 1) * 10800,
     main    |-> [temp |-> temp],
     weather |-> <<[main |-> PointKinds[kind].main,
                    description |-> PointKinds[kind].description]>>,
     rain    |-> PointKinds[kind].rain]

ForecastOf(temps, kinds, timezone) ==
    [list |-> [k \in 1..Len(temps) |-> Point(k, temps[k], kinds[k])],
     city |-> [timezone |-> timezone]]

\* the example of the specification: eight points, rain at the 2nd and 5th
ExampleForecast ==
    ForecastOf(<<10, 12, 14, 16, 18, 20, 22, 24>>,
               <<3, 1, 3, 3, 2, 3, 3, 3>>, 3600)

CurrentOf(name, dt, temp, main, description) ==
    [name    |-> name,
     dt      |-> dt,
     main    |-> [temp |-> temp, feels_like |-> temp - 1, humidity |-> 60],
     wind    |-> [speed |-> 3],
     weather |-> <<[main |-> main, description |-> description,
                    icon |-> "10d"]>>]

\* what the API answers for the city typed
WorldCurrent(c) ==
    IF trim(c) = Paris
    THEN CurrentOf("Paris", 45000, 18, <<"R","a","i","n">>, LightRain)
    ELSE CurrentOf("Oslo", 84600, -3,
                   <<"T","h","u","n","d","e","r","s","t","o","r","m">>,
                   <<"t","h","u","n","d","e","r","s","t","o","r","m">>)

WorldForecast(c) ==
    IF trim(c) = Paris THEN ForecastOf(<<10, 12, 14>>, <<3, 1, 2>>, 3600)
    ELSE ForecastOf(<<-3, 0>>, <<3, 2>>, 0)

(***************************************************************************)
(* The state.                                                              *)
(*   city, weather, loading, error   the four useState cells               *)
(*   searches[s]   the s-th call of fetchWeather that passed the guard:    *)
(*                 where it stands (phase), the city its closure holds,    *)
(*                 the responses it has received, how it ended (outcome)   *)
(*                 and which search's summary was shown when it began      *)
(*   started       number of such calls                                    *)
(*   gets          the GET requests issued so far, in order                *)
(*   arrivals      the searches whose forecast response arrived, in order  *)
(*   weatherBy     the search that wrote weather last (0: none)            *)
(*   host          the device: its UTC offset and hour cycle               *)
(*   summary       the weatherData computed by the last render             *)
(*   view          what the last render shows                              *)
(***************************************************************************)
Search == 1..MaxSearches

IdleSearch ==
    [phase |-> "idle", city |-> <<>>, response |-> <<>>, forecast |-> <<>>,
     outcome |-> "none", shownAtStart |-> 0]

Outstanding(s) == searches[s].phase \in {"current", "forecast"}

\* mutant: the guard without the trim (!city)
IsBlankNoTrim(c) == c = <<>>

\* !city.trim()
IsBlank(c) == trim(c) = <<>>

\* the state writes of fetchWeather, on st = [weather, loading, error]
\* lines 25-26: the empty-input branch
OnEmptyInput(st) == [st EXCEPT !.error = PleaseEnterCity]

\* lines 28-29
OnStart(st) == [st EXCEPT !.loading = TRUE, !.error = NoError]

\* mutant: the summary is stored as soon as the first response is in
AfterCurrentEager(st, response) ==
    [st EXCEPT !.weather = <<[current        |-> response,
                              forecast       |-> [list |-> <<>>,
                                                  city |-> [timezone |-> 0]],
                              timezoneOffset |-> 0]>>]

\* lines 31-36: between the two awaits nothing is written
AfterCurrent(st, response) == st

\* lines 38-44
OnSuccess(st, response, forecast) ==
    [st EXCEPT !.weather = <<[current        |-> response,
                              forecast       |-> forecast,
                              timezoneOffset |-> forecast.city.timezone]>>]

\* line 46
OnCatch(st) == [st EXCEPT !.error = CityNotFound]

\* mutant: no finally block, loading is never reset
OnFinallyMissing(st) == st

\* line 48
OnFinally(st) == [st EXCEPT !.loading = FALSE]

State == [weather |-> weather, loading |-> loading, error |-> error]

\* commit the writes and render again
Commit(st) ==
    /\ weather' = st.weather
    /\ loading' = st.loading
    /\ error' = st.error
    /\ summary' = weatherData(st.weather, host)
    /\ view' = Render(st.weather, summary', st.loading, st.error)

Init ==
    /\ city = <<>>
    /\ weather = <<>>
    /\ loading = FALSE
    /\ error = NoError
    /\ searches = [s \in Search |-> IdleSearch]
    /\ started = 0
    /\ gets = <<>>
    /\ arrivals = <<>>
    /\ weatherBy = 0
    /\ host \in HostPool
    /\ summary = weatherData(<<>>, host)
    /\ view = Render(<<>>, summary, FALSE, NoError)

\* onChangeText={setCity}
SetCity(c) ==
    /\ city' = c
    /\ UNCHANGED <<weather, loading, error, searches, started, gets, arrivals,
                   weatherBy, host, summary, view>>

\* onPress={fetchWeather}, up to the first await
FetchWeather ==
    IF IsBlank(city)
    THEN /\ Commit(OnEmptyInput(State))
         /\ UNCHANGED <<city, searches, started, gets, arrivals, weatherBy, host>>
    ELSE /\ started < MaxSearches
         /\ started' = started + 1
         /\ searches' = [searches EXCEPT ![started + 1] =
                [@ EXCEPT !.phase = "current", !.city = city,
                          !.shownAtStart = weatherBy]]
         /\ gets' = Append(gets, [path |-> "weather", q |-> city])
         /\ Commit(OnStart(State))
         /\ UNCHANGED <<city, arrivals, weatherBy, host>>

\* the current-conditions GET resolves; the forecast GET is issued
CurrentOk(s, response) ==
    /\ searches[s].phase = "current"
    /\ searches' = [searches EXCEPT ![s] =
            [@ EXCEPT !.phase = "forecast", !.response = <<response>>]]
    /\ gets' = Append(gets, [path |-> "forecast", q |-> searches[s].city])
    /\ Commit(AfterCurrent(State, response))
    /\ UNCHANGED <<city, started, arrivals, weatherBy, host>>

\* mutant: a response is applied only if its search is the latest started
ForecastOkLatestOnly(s, forecast) ==
    /\ searches[s].phase = "forecast"
    /\ searches' = [searches EXCEPT ![s] =
            [@ EXCEPT !.phase = "done", !.forecast = <<forecast>>,
                      !.outcome = "ok"]]
    /\ arrivals' = Append(arrivals, s)
    /\ weatherBy' = IF s = started THEN s ELSE weatherBy
    /\ Commit(OnFinally(IF s = started
                        THEN OnSuccess(State, searches[s].response[1], forecast)
                        ELSE State))
    /\ UNCHANGED <<city, started, gets, host>>

\* the forecast GET resolves: setWeather, then finally
ForecastOk(s, forecast) ==
    /\ searches[s].phase = "forecast"
    /\ searches' = [searches EXCEPT ![s] =
            [@ EXCEPT !.phase = "done", !.forecast = <<forecast>>,
                      !.outcome = "ok"]]
    /\ arrivals' = Append(arrivals, s)
    /\ weatherBy' = s
    /\ Commit(OnFinally(OnSuccess(State, searches[s].response[1], forecast)))
    /\ UNCHANGED <<city, started, gets, host>>

\* either GET rejects: catch, then finally
RequestFails(s) ==
    /\ Outstanding(s)
    /\ searches' = [searches EXCEPT ![s] =
            [@ EXCEPT !.phase = "done", !.outcome = "failed"]]
    /\ Commit(OnFinally(OnCatch(State)))
    /\ UNCHANGED <<city, started, gets, arrivals, weatherBy, host>>

Next ==
    \/ \E c \in Cities : SetCity(c)
    \/ FetchWeather
    \/ \E s \in Search : CurrentOk(s, WorldCurrent(searches[s].city))
    \/ \E s \in Search : ForecastOk(s, WorldForecast(searches[s].city))
    \/ \E s \in Search : RequestFails(s)

Spec == Init /\ [][Next]_vars

(***************************************************************************)
(* The aggregation alone: one search whose current conditions have arrived *)
(* and whose forecast request is outstanding; the forecast that arrives is *)
(* any forecast of at most MaxLen points (or the eight-point example).     *)
(***************************************************************************)
InitAgg ==
    /\ city = Paris
    /\ weather = <<>>
    /\ loading = TRUE
    /\ error = NoError
    /\ searches = [s \in Search |->
            IF s = 1
            THEN [IdleSearch EXCEPT !.phase = "forecast", !.city = Paris,
                                    !.response = <<WorldCurrent(Paris)>>]
            ELSE IdleSearch]
    /\ started = 1
    /\ gets = <<[path |-> "weather", q |-> Paris],
                [path |-> "forecast", q |-> Paris]>>
    /\ arrivals = <<>>
    /\ weatherBy = 0
    /\ host \in AggHostPool
    /\ summary = weatherData(<<>>, host)
    /\ view = Render(<<>>, summary, TRUE, NoError)

\* the forecast that arrives: any of at most MaxLen points, or the example
NextAgg ==
    /\ Outstanding(1)
    /\ \/ \E n \in 0..MaxLen :
            \E temps \in [1..n -> TempPool],
               kinds \in [1..n -> 1..Len(PointKinds)],
               tz \in TimezonePool :
                   ForecastOk(1, ForecastOf(temps, kinds, tz))
       \/ ForecastOk(1, ExampleForecast)

SpecAgg == InitAgg /\ [][NextAgg]_vars

(***************************************************************************)
(* Properties.  The reference notions below are stated from the claims,    *)
(* not from the operators above.                                           *)
(***************************************************************************)
AllWhitespace(c) == \A k \in 1..Len(c) : c[k] \in WhiteSpace

\* s contains "rain" in any mixture of cases
HasRainAnyCase(s) ==
    \E k \in 1..(Len(s) - 3) :
        /\ s[k] \in {"r", "R"}
        /\ s[k + 1] \in {"a", "A"}
        /\ s[k + 2] \in {"i", "I"}
        /\ s[k + 3] \in {"n", "N"}

RainPoint(item) ==
    \/ HasRainAnyCase(item.weather[1].main)
    \/ HasRainAnyCase(item.weather[1].description)

RECURSIVE SumOf(_)
SumOf(seq) == IF seq = <<>> THEN 0 ELSE SumOf(Tail(seq)) + Head(seq)

\* a summary is stored; the values weatherData computes from it; the card
Stored == weather # <<>> /\ summary # <<>>
Summary == summary[1]
Shown == view.card # <<>>
ShownCard == view.card[1]
StoredList == weather[1].forecast.list
StoredTemps == [k \in 1..Len(StoredList) |-> StoredList[k].main.temp]
ExampleTemps == <<10, 12, 14, 16, 18, 20, 22, 24>>

NoneOutstanding == \A s \in Search : ~Outstanding(s)

\* the summary input search s received
SummaryOf(s) ==
    <<[current        |-> searches[s].response[1],
       forecast       |-> searches[s].forecast[1],
       timezoneOffset |-> searches[s].forecast[1].city.timezone]>>

\* C1: a fetchWeather step taken while the city is empty or all whitespace
\* issues no GET request, starts no search and sets (and shows) the
\* 'please enter a city' message.
C1_EmptyInputNoRequest ==
    [][(AllWhitespace(city) /\ FetchWeather) =>
          /\ gets' = gets
          /\ started' = started
          /\ searches' = searches
          /\ error' = PleaseEnterCity
          /\ view'.errorText = PleaseEnterCity]_vars

\* a summary is on screen, the city is "   " and the message is shown
C1_Witness ==
    /\ city \in {<<" ", " ", " ">>, <<"\r", "U+00A0", "\f">>}
    /\ error = PleaseEnterCity
    /\ view.errorText = PleaseEnterCity
    /\ weather # <<>>
    /\ ~loading

\* C2: weather changes only in the step in which a search's forecast response
\* arrives after its current-conditions response, and then to exactly these
\* two responses; a step in which a search fails leaves weather as it was
\* and sets the generic message, and a failed search never is the writer.
C2_WeatherOnlyAfterBoth ==
    [][/\ weather' # weather =>
            \E s \in Search :
                /\ searches[s].phase = "forecast"
                /\ searches[s].response # <<>>
                /\ searches'[s].outcome = "ok"
                /\ searches'[s].forecast # <<>>
                /\ weather' = <<[current  |-> searches[s].response[1],
                                 forecast |-> searches'[s].forecast[1],
                                 timezoneOffset |->
                                     searches'[s].forecast[1].city.timezone]>>
       /\ \A s \in Search :
            (searches[s].outcome = "none" /\ searches'[s].outcome = "failed") =>
                /\ weather' = weather
                /\ error' = CityNotFound
                /\ view'.errorText = CityNotFound
                /\ weatherBy' # s]_vars

\* a search failed at its forecast request, after its current conditions had
\* arrived, and nothing was ever stored
C2_Witness ==
    \E s \in Search :
        /\ searches[s].outcome = "failed"
        /\ searches[s].response # <<>>
        /\ weather = <<>>
        /\ error = CityNotFound

\* C3: once a search that was triggered while the summary of search r was
\* shown has run to completion, the summary shown is no longer that of r.
C3_SummaryReplacedByNextQuery ==
    \A t \in Search :
        (searches[t].phase = "done" /\ searches[t].shownAtStart # 0) =>
            weatherBy # searches[t].shownAtStart

\* C4: willRain is true exactly when some point of the stored forecast list
\* contains "rain", in any case, in its main or in its description.
C4_WillRainIff ==
    Stored =>
        (Summary.willRain <=>
            \E k \in 1..Len(StoredList) : RainPoint(StoredList[k]))

\* rain is announced by descriptions alone: no main field matches
C4_Witness ==
    /\ Stored /\ Shown
    /\ Summary.willRain
    /\ \A k \in 1..Len(StoredList) :
            ~HasRainAnyCase(StoredList[k].weather[1].main)

\* C5: the rain times are the rain-matching points of the stored list and no
\* others, each once, in the order of the list: the entry of the k-th
\* matching point is the k-th entry.
C5_RainTimesInOrder ==
    Stored =>
        LET M == {k \in 1..Len(StoredList) : RainPoint(StoredList[k])}
            Rank(k) == Cardinality({j \in M : j <= k})
        IN  /\ Len(Summary.rainTimes) = Cardinality(M)
            /\ \A k \in M :
                 Summary.rainTimes[Rank(k)] =
                    [time      |-> getLocalTime(StoredList[k].dt,
                                                weather[1].timezoneOffset, host),
                     intensity |-> Intensity(StoredList[k])]

\* eight points of which the 2nd and the 5th match: two entries
C5_Witness ==
    /\ Stored /\ Shown
    /\ Len(StoredList) = 8
    /\ {k \in 1..Len(StoredList) : RainPoint(StoredList[k])} = {2, 5}
    /\ Len(Summary.rainTimes) = 2

\* C6: for a non-empty stored list, avgTemp is the sum of the temperatures
\* over their number, minTemp the least and maxTemp the greatest of them;
\* the temperatures 10,12,...,24 give 17, 10 and 24.
C6_TempStatistics ==
    (Stored /\ Len(StoredList) > 0) =>
        /\ Summary.avgTemp.kind = "num"
        /\ Summary.avgTemp.den > 0
        /\ Summary.avgTemp.num * Len(StoredList)
              = SumOf(StoredTemps) * Summary.avgTemp.den
        /\ Summary.minTemp.kind = "num" /\ Summary.minTemp.den = 1
        /\ \E k \in 1..Len(StoredList) : StoredTemps[k] = Summary.minTemp.num
        /\ \A k \in 1..Len(StoredList) : StoredTemps[k] >= Summary.minTemp.num
        /\ Summary.maxTemp.kind = "num" /\ Summary.maxTemp.den = 1
        /\ \E k \in 1..Len(StoredList) : StoredTemps[k] = Summary.maxTemp.num
        /\ \A k \in 1..Len(StoredList) : StoredTemps[k] <= Summary.maxTemp.num
        /\ StoredTemps = ExampleTemps =>
              /\ Summary.avgTemp = [kind |-> "num", num |-> 17, den |-> 1]
              /\ Summary.minTemp.num = 10
              /\ Summary.maxTemp.num = 24

\* the example list has been aggregated
C6_Witness == Stored /\ Shown /\ ShownCard.avg.num = 17 /\ StoredTemps = ExampleTemps

\* C7: a time getLocalTime returns is the hour:minute of the instant
\* timestamp + timezoneOffset read as UTC, whatever the host's own offset:
\* so are the time of the current conditions and the times in the rain grid.
C7_NoHostTimezone ==
    Shown =>
        LET Reference(timestamp) ==
                LET seconds == timestamp + weather[1].timezoneOffset
                IN  FormatTime((seconds % 86400) \div 3600,
                               ((seconds % 86400) % 3600) \div 60,
                               host.locale)
            M == {k \in 1..Len(StoredList) : RainPoint(StoredList[k])}
            Rank(k) == Cardinality({j \in M : j <= k})
        IN  /\ Summary.currentTime = Reference(weather[1].current.dt)
            /\ \A k \in M :
                 /\ Rank(k) <= Len(ShownCard.rain.cells)
                 /\ ShownCard.rain.cells[Rank(k)].time
                        = Reference(StoredList[k].dt)

\* C8: the description shown is the API's description with its first
\* character upper-cased and every other character unchanged.
C8_FirstLetterOnly ==
    Shown =>
        LET d == weather[1].current.weather[1].description
            t == ShownCard.description
        IN  /\ Len(t) = Len(d)
            /\ \A k \in 1..Len(d) :
                 t[k] = IF k = 1 THEN UpperChar(d[k]) ELSE d[k]

\* C9: when no search is outstanding and at least two have succeeded, the
\* summary stored and shown is that of the search whose forecast response
\* arrived last, whatever the order in which the searches were triggered.
C9_LastArrivalWins ==
    (NoneOutstanding /\ Len(arrivals) >= 2) =>
        LET s == arrivals[Len(arrivals)]
        IN  /\ weather = SummaryOf(s)
            /\ Shown
            /\ ShownCard.city.location = searches[s].response[1].name

\* both searches succeeded, the second one's forecast arrived first, and the
\* screen shows the city of the search triggered first
C9_Witness ==
    /\ NoneOutstanding
    /\ arrivals = <<2, 1>>
    /\ trim(searches[1].city) # trim(searches[2].city)
    /\ Shown
    /\ ShownCard.city.location = searches[1].response[1].name
    /\ ShownCard.city.location # searches[2].response[1].name

\* C10: while the loading indicator is on, some search has a gateway request
\* outstanding.
C10_LoadingImpliesOutstanding ==
    /\ loading => \E s \in Search : Outstanding(s)
    /\ view.spinner = loading

\* two searches overlap and the indicator is on
C10_Witness ==
    /\ loading
    /\ view.spinner
    /\ Cardinality({s \in Search : Outstanding(s)}) >= 2

====
